---- MODULE Spec2Model ----
(***************************************************************************)
(* Model of logger.py (wifi-speed-logger-CLI): one run of the script is    *)
(* the import guard, main(), get_wifi_stats(), run_speedtest() and         *)
(* append_csv().                                                           *)
(*                                                                         *)
(* Representation.  A Python str is a sequence of tokens; a token is one   *)
(* character (":", " ", "-", a digit, a line feed) or an indivisible word  *)
(* that contains none of those characters ("agrCtlRSSI", "HomeNet").  A    *)
(* Python value is a record [k, i, s]: k is its type, i its number (ints   *)
(* as they are, floats in thousandths), s its text.                        *)
(***************************************************************************)
EXTENDS Integers, Sequences, FiniteSets, TLC

(* ------------------------------ bounds -------------------------------- *)
MaxRuns == 3
MaxOverlapRuns == 2
MaxLines == 2

(* ------------------------- Python values ------------------------------ *)
None == [k |-> "None", i |-> 0, s |-> <<>>]

PyInt(n) == [k |-> "int", i |-> n, s |-> <<>>]

PyFloat(thousandths) == [k |-> "float", i |-> thousandths, s |-> <<>>]

PyStr(str) == [k |-> "str", i |-> 0, s |-> str]

EmptyDict == <<>>

\* d[key] = val on a dict (a function from keys to values)
DictSet(d, key, val) ==
    [x \in DOMAIN d \cup {key} |-> IF x = key THEN val ELSE d[x]]

\* d.get(key, default)
DictGet(d, key, default) == IF key \in DOMAIN d THEN d[key] ELSE default

\* {**a, **b}: the keys of both, b's value where both have the key
DictMerge(a, b) ==
    [x \in DOMAIN a \cup DOMAIN b |-> IF x \in DOMAIN b THEN b[x] ELSE a[x]]

(* ------------------------- str operations ----------------------------- *)
Whitespace == {" ", "\n"}

Digits == <<"0", "1", "2", "3", "4", "5", "6", "7", "8", "9">>

IsDigit(c) == \E d \in 1..10 : Digits[d] = c

DigitVal(c) == (CHOOSE d \in 1..10 : Digits[d] = c) - 1

\* index of the first occurrence of token c in str, 0 when there is none
IndexOf(str, c) ==
    IF \E j \in 1..Len(str) : str[j] = c
    THEN CHOOSE j \in 1..Len(str) : str[j] = c /\ \A h \in 1..(j - 1) : str[h] /= c
    ELSE 0

\* str.strip(chars): drop the leading and trailing tokens that are in chars
StripChars(str, chars) ==
    IF \A j \in 1..Len(str) : str[j] \in chars
    THEN <<>>
    ELSE LET lo == CHOOSE j \in 1..Len(str) :
                       str[j] \notin chars /\ \A h \in 1..(j - 1) : str[h] \in chars
             hi == CHOOSE j \in 1..Len(str) :
                       str[j] \notin chars /\ \A h \in (j + 1)..Len(str) : str[h] \in chars
         IN  SubSeq(str, lo, hi)

\* str.strip()
strip(str) == StripChars(str, Whitespace)

\* str.splitlines(): the line feed ends a line, no empty last line
RECURSIVE splitlines(_)
splitlines(text) ==
    IF text = <<>> THEN <<>>
    ELSE LET nl == IndexOf(text, "\n")
         IN  IF nl = 0 THEN <<text>>
             ELSE <<SubSeq(text, 1, nl - 1)>> \o splitlines(SubSeq(text, nl + 1, Len(text)))

\* str(val)
str(val) ==
    IF val.k = "None" THEN <<"None">> ELSE val.s

\* the text int() accepts: an optional sign, then digits, single underscores
\* allowed between two digits
IsIntLiteral(t) ==
    LET body == IF t /= <<>> /\ t[1] \in {"+", "-"} THEN Tail(t) ELSE t
    IN  /\ body /= <<>>
        /\ \A j \in 1..Len(body) :
              \/ IsDigit(body[j])
              \/ /\ body[j] = "_"
                 /\ j > 1 /\ j < Len(body)
                 /\ IsDigit(body[j - 1]) /\ IsDigit(body[j + 1])

RECURSIVE DigitsValue(_, _)
DigitsValue(body, acc) ==
    IF body = <<>> THEN acc
    ELSE IF body[1] = "_" THEN DigitsValue(Tail(body), acc)
    ELSE DigitsValue(Tail(body), 10 * acc + DigitVal(body[1]))

IntLiteralValue(t) ==
    IF t[1] = "-" THEN 0 - DigitsValue(Tail(t), 0)
    ELSE IF t[1] = "+" THEN DigitsValue(Tail(t), 0)
    ELSE DigitsValue(t, 0)

(* ------------------------- parse_airport_output ----------------------- *)
_to_int(val) ==
    LET t == strip(str(val))
    IN  IF IsIntLiteral(t) THEN PyInt(IntLiteralValue(t)) ELSE None

\* float() of a text without ".", exponent, "inf" or "nan" tokens accepts
\* what int() accepts; the model's alphabet has none of those tokens
_to_float(val) ==
    LET t == strip(str(val))
    IN  IF IsIntLiteral(t) THEN PyFloat(1000 * IntLiteralValue(t)) ELSE None

\* the loop of parse_airport_output: every line with a colon sets
\* data[key.strip()] = value.strip(), split at the first colon
RECURSIVE ParseLines(_, _)
ParseLines(lines, data) ==
    IF lines = <<>> THEN data
    ELSE LET line == Head(lines)
             c == IndexOf(line, ":")
         IN  IF c = 0 THEN ParseLines(Tail(lines), data)
             ELSE ParseLines(Tail(lines),
                             DictSet(data,
                                     strip(SubSeq(line, 1, c - 1)),
                                     PyStr(strip(SubSeq(line, c + 1, Len(line))))))

SnrNoNoiseCheck(rssi, noise) ==
    IF rssi /= None THEN PyInt(rssi.i - noise.i) ELSE None

Snr(rssi, noise) ==
    IF rssi /= None /\ noise /= None THEN PyInt(rssi.i - noise.i) ELSE None

parse_airport_output(text) ==
    LET data == ParseLines(splitlines(text), EmptyDict)
        rssi == _to_int(DictGet(data, <<"agrCtlRSSI">>, None))
        noise == _to_int(DictGet(data, <<"agrCtlNoise">>, None))
    IN  [ssid |-> DictGet(data, <<"SSID">>, PyStr(<<>>)),
         bssid |-> DictGet(data, <<"BSSID">>, PyStr(<<>>)),
         channel |-> DictGet(data, <<"channel">>, PyStr(<<>>)),
         rssi_dbm |-> rssi,
         noise_dbm |-> noise,
         snr_db |-> Snr(rssi, noise),
         tx_rate_mbps |-> _to_float(DictGet(data, <<"lastTxRate">>, None))]


AllAbsentWifiZeroRssi ==
    [ssid |-> PyStr(<<>>),
     bssid |-> PyStr(<<>>),
     channel |-> PyStr(<<>>),
     rssi_dbm |-> PyInt(0),
     noise_dbm |-> None,
     snr_db |-> None,
     tx_rate_mbps |-> None]

AllAbsentWifi ==
    [ssid |-> PyStr(<<>>),
     bssid |-> PyStr(<<>>),
     channel |-> PyStr(<<>>),
     rssi_dbm |-> None,
     noise_dbm |-> None,
     snr_db |-> None,
     tx_rate_mbps |-> None]

(* ------------------------------ find_airport -------------------------- *)
\* sep: the candidate contains os.path.sep, so it is tested with
\* os.path.exists; otherwise it is resolved with shutil.which
AIRPORT_CANDIDATES ==
    <<[path |-> "/System/Library/PrivateFrameworks/Apple80211.framework/Versions/Current/Resources/airport",
       sep |-> TRUE],
      [path |-> "/System/Library/PrivateFrameworks/Apple80211.framework/Versions/A/Resources/airport",
       sep |-> TRUE],
      [path |-> "airport", sep |-> FALSE]>>

NoPath == [path |-> "", via |-> "None"]

\* present: the indexes of the candidates that exist (sep) or resolve on PATH
Resolve(c, present) ==
    IF c \notin present THEN NoPath
    ELSE IF AIRPORT_CANDIDATES[c].sep
         THEN [path |-> AIRPORT_CANDIDATES[c].path, via |-> "exists"]
         ELSE [path |-> AIRPORT_CANDIDATES[c].path, via |-> "which"]

RECURSIVE FindFrom(_, _)
FindFrom(c, present) ==
    IF c > Len(AIRPORT_CANDIDATES) THEN NoPath
    ELSE IF Resolve(c, present) /= NoPath THEN Resolve(c, present)
    ELSE FindFrom(c + 1, present)

find_airport(present) == FindFrom(1, present)

(* ------------------------------ run_speedtest ------------------------- *)
\* round(x / unit) of a non-negative x: the nearest integer; at a decimal tie
\* the binary float decides, so the tie goes down (tie = 0) or up (tie = 1)
RoundDiv(x, unit, tie) ==
    LET q == x \div unit
        r == x % unit
    IN  IF 2 * r < unit THEN q
        ELSE IF 2 * r > unit THEN q + 1
        ELSE q + tie

BitsPerMbit == 1000000

\* the calls of run_speedtest, in order; the last is the conversion block
SpeedStages ==
    <<"Speedtest", "get_servers", "get_best_server", "download", "upload",
      "results.dict", "convert">>

PingOrLatency(res, best) ==
    LET ping == DictGet(res, "ping", None)
    IN  IF ping.k = "None" \/ ping.i = 0 THEN DictGet(best, "latency", PyFloat(0)) ELSE ping

\* res.get("ping", best.get("latency", 0.0))
PingSource(res, best) ==
    DictGet(res, "ping", DictGet(best, "latency", PyFloat(0)))

\* in: [fail, down, up, res, best]; fail names the call that raises ("none":
\* no call raises).  down and up are bits per second, ping and latency are
\* floats in thousandths of a millisecond.  The result is [raised, value].
run_speedtest(in, tie) ==
    LET ping == PingSource(in.res, in.best)
    IN  IF in.fail /= "none" THEN [raised |-> TRUE, value |-> in.fail]
        ELSE IF ping.k \notin {"int", "float"}
        THEN [raised |-> TRUE, value |-> "convert"]   \* round(None, 2): TypeError
        ELSE [raised |-> FALSE,
              value |->
                [download_mbps |-> PyFloat(RoundDiv(in.down, BitsPerMbit \div 1000, tie)),
                 upload_mbps |-> PyFloat(RoundDiv(in.up, BitsPerMbit \div 1000, tie)),
                 ping_ms |-> PyFloat(10 * RoundDiv(ping.i, 10, tie)),
                 external_ip |-> DictGet(DictGet(in.res, "client", EmptyDict), "ip", PyStr(<<>>)),
                 server_name |->
                     PyStr(StripChars(DictGet(in.best, "sponsor", PyStr(<<>>)).s
                                          \o <<" ", "-", " ">>
                                          \o DictGet(in.best, "name", PyStr(<<>>)).s,
                                      {" ", "-"})),
                 server_country |-> DictGet(in.best, "country", PyStr(<<>>))]]

BlankSpeedZeroDownload ==
    [download_mbps |-> PyFloat(0),
     upload_mbps |-> None,
     ping_ms |-> None,
     external_ip |-> PyStr(<<>>),
     server_name |-> PyStr(<<>>),
     server_country |-> PyStr(<<>>)]

\* the except branch of main()
BlankSpeed ==
    [download_mbps |-> None,
     upload_mbps |-> None,
     ping_ms |-> None,
     external_ip |-> PyStr(<<>>),
     server_name |-> PyStr(<<>>),
     server_country |-> PyStr(<<>>)]

(* ------------------------------ csv ----------------------------------- *)
CSV_HEADERS ==
    <<"timestamp_iso", "ssid", "bssid", "channel", "rssi_dbm", "noise_dbm",
      "snr_db", "tx_rate_mbps", "download_mbps", "upload_mbps", "ping_ms",
      "external_ip", "server_name", "server_country">>

HeaderSet == {CSV_HEADERS[c] : c \in 1..Len(CSV_HEADERS)}

RECURSIVE NatText(_)
NatText(n) ==
    IF n < 10 THEN <<Digits[n + 1]>> ELSE Append(NatText(n \div 10), Digits[(n % 10) + 1])

IntText(n) == IF n < 0 THEN <<"-">> \o NatText(0 - n) ELSE NatText(n)

\* the fraction digits of repr(float): trailing zeros dropped, one digit kept
FractionText(th) ==
    IF th % 10 /= 0 THEN <<Digits[(th \div 100) + 1], Digits[((th \div 10) % 10) + 1], Digits[(th % 10) + 1]>>
    ELSE IF th % 100 /= 0 THEN <<Digits[(th \div 100) + 1], Digits[((th \div 10) % 10) + 1]>>
    ELSE <<Digits[(th \div 100) + 1]>>

FloatText(th) ==
    LET a == IF th < 0 THEN 0 - th ELSE th
    IN  (IF th < 0 THEN <<"-">> ELSE <<>>) \o NatText(a \div 1000) \o <<".">> \o FractionText(a % 1000)

\* what csv.writer writes for a value: None as the empty field, the rest str()
CellText(val) ==
    IF val.k = "None" THEN <<>>
    ELSE IF val.k = "int" THEN IntText(val.i)
    ELSE IF val.k = "float" THEN FloatText(val.i)
    ELSE val.s

\* DictWriter.writeheader(): the field names in their declared order
HeaderLine == [c \in 1..Len(CSV_HEADERS) |-> <<CSV_HEADERS[c]>>]

\* DictWriter.writerow(row): a key that is no field name raises ValueError;
\* a missing key is written as restval, the empty field
RowHasExtraKeys(row) == DOMAIN row \ HeaderSet /= {}

RowLine(row) ==
    [c \in 1..Len(CSV_HEADERS) |->
        IF CSV_HEADERS[c] \in DOMAIN row THEN CellText(row[CSV_HEADERS[c]]) ELSE <<>>]

\* datetime.now().astimezone().isoformat(timespec="seconds") at second t
isoformat(t) ==
    <<"2025-09-29T20:33:", Digits[(t \div 10) + 1], Digits[(t % 10) + 1], "+05:30">>

(* ------------------------------ inputs -------------------------------- *)
Procs == {1, 2}

\* what `airport -I` prints: the association report, and the report of a
\* radio that is switched off
AirportReports ==
    {<<"SSID", ":", " ", "HomeNet", "\n",
       "agrCtlRSSI", ":", " ", "-", "5", "0", "\n",
       "agrCtlNoise", ":", " ", "-", "9", "0", "\n",
       "lastTxRate", ":", " ", "6", "0", "0", "\n">>,
     <<"AirPort", ":", " ", "Off", "\n">>}

\* subprocess.check_output: exit 0 with the output, a non-zero exit
\* (CalledProcessError), or the process cannot be started or read (OSError)
InvokeOutcomes ==
    {[kind |-> "exit0", text |-> t] : t \in AirportReports}
        \cup {[kind |-> "nonzero", text |-> <<>>], [kind |-> "oserror", text |-> <<>>]}

\* which candidates exist or resolve: every combination
PresentSets == SUBSET (1..Len(AIRPORT_CANDIDATES))

OverlapPresentSets == {{}, {Len(AIRPORT_CANDIDATES)}}

FullRes == [ping |-> PyFloat(12348), client |-> [ip |-> PyStr(<<"203.0.113.7">>)]]

FullBest ==
    [sponsor |-> PyStr(<<"Dialog">>), name |-> PyStr(<<"Colombo">>),
     country |-> PyStr(<<"Sri", " ", "Lanka">>), latency |-> PyFloat(9871)]

SpeedFailures ==
    {[fail |-> SpeedStages[st], down |-> 87654321, up |-> 12500500, res |-> FullRes, best |-> FullBest] :
        st \in 1..Len(SpeedStages)}

SpeedMeasured ==
    {[fail |-> "none", down |-> 87654321, up |-> 12500500, res |-> FullRes, best |-> FullBest],
     [fail |-> "none", down |-> 0, up |-> 1499,
      res |-> [client |-> EmptyDict], best |-> [name |-> PyStr(<<"Colombo">>), latency |-> PyFloat(0)]]}

SpeedInputs == SpeedFailures \cup SpeedMeasured

OverlapSpeedInputs ==
    {in \in SpeedInputs : in.fail \in {"download"} \/ (in.fail = "none" /\ in.down = 0)}

(* ------------------------------ state --------------------------------- *)
VARIABLES
    dirExists,      \* LOG_DIR exists
    fileExists,     \* LOG_FILE exists
    log,            \* the lines of LOG_FILE, each a sequence of fields
    clock,          \* the wall clock, in seconds
    runs,           \* the number of runs started
    overlapped,     \* some run started while another was in progress
    pc,             \* where each process is
    exitCode,       \* the exit code of a process that has exited, else -1
    exc,            \* the exception that ended the process, "none" if none
    timestamp_iso,  \* main(): timestamp_iso
    wifi,           \* main(): wifi
    speed,          \* main(): speed
    row,            \* main(): row
    file_exists,    \* append_csv(): file_exists
    calls,          \* the functions the run has called, in order
    airport,        \* get_wifi_stats(): what find_airport returned
    invoked,        \* how the utility invocation ended
    speedRaised,    \* the call of run_speedtest that raised, "none" if none
    existedBefore,  \* LOG_FILE existed when the run started
    written,        \* the lines the run has written to LOG_FILE
    pText, pLines, pResult,   \* parser specification: input and result
    sIn, sOut                 \* throughput specification: input and result

gvars == <<dirExists, fileExists, log, clock, runs, overlapped>>

lvars == <<pc, exitCode, exc, timestamp_iso, wifi, speed, row, file_exists, calls,
           airport, invoked, speedRaised, existedBefore, written>>

pvars == <<pText, pLines, pResult>>

svars == <<sIn, sOut>>

vars == <<gvars, lvars, pvars, svars>>

Unbound == [unbound |-> TRUE]

NotParsed == [unset |-> TRUE]

RunInit ==
    /\ dirExists \in BOOLEAN
    /\ fileExists = FALSE
    /\ log = <<>>
    /\ clock = 0
    /\ runs = 0
    /\ overlapped = FALSE
    /\ pc = [p \in Procs |-> "not_started"]
    /\ exitCode = [p \in Procs |-> -1]
    /\ exc = [p \in Procs |-> "none"]
    /\ timestamp_iso = [p \in Procs |-> Unbound]
    /\ wifi = [p \in Procs |-> Unbound]
    /\ speed = [p \in Procs |-> Unbound]
    /\ row = [p \in Procs |-> Unbound]
    /\ file_exists = [p \in Procs |-> FALSE]
    /\ calls = [p \in Procs |-> <<>>]
    /\ airport = [p \in Procs |-> NoPath]
    /\ invoked = [p \in Procs |-> "none"]
    /\ speedRaised = [p \in Procs |-> "none"]
    /\ existedBefore = [p \in Procs |-> FALSE]
    /\ written = [p \in Procs |-> <<>>]

ParseIdle ==
    /\ pText = <<>>
    /\ pLines = 0
    /\ pResult = NotParsed

SpeedIdle ==
    /\ sIn = Unbound
    /\ sOut = Unbound

Init == RunInit /\ ParseIdle /\ SpeedIdle

Active(p) == pc[p] \notin {"not_started", "exited"}

\* the process ends: sys.exit(code), an uncaught exception (code 1), or
\* main() returning (code 0)
Exit(p, code, exception) ==
    /\ pc' = [pc EXCEPT ![p] = "exited"]
    /\ exitCode' = [exitCode EXCEPT ![p] = code]
    /\ exc' = [exc EXCEPT ![p] = exception]

Goto(p, label) ==
    /\ pc' = [pc EXCEPT ![p] = label]
    /\ UNCHANGED <<exitCode, exc>>

Call(p, fn) == calls' = [calls EXCEPT ![p] = Append(@, fn)]

(* ------------------------------ a run --------------------------------- *)
\* the scheduler starts `python logger.py` in a fresh process, which takes the
\* first free slot
Launch(p, maxRuns) ==
    /\ ~Active(p)
    /\ \A q \in Procs : q < p => Active(q)
    /\ runs < maxRuns
    /\ runs' = runs + 1
    /\ overlapped' = (overlapped \/ \E q \in Procs : Active(q))
    /\ pc' = [pc EXCEPT ![p] = "import"]
    /\ exitCode' = [exitCode EXCEPT ![p] = -1]
    /\ exc' = [exc EXCEPT ![p] = "none"]
    /\ timestamp_iso' = [timestamp_iso EXCEPT ![p] = Unbound]
    /\ wifi' = [wifi EXCEPT ![p] = Unbound]
    /\ speed' = [speed EXCEPT ![p] = Unbound]
    /\ row' = [row EXCEPT ![p] = Unbound]
    /\ file_exists' = [file_exists EXCEPT ![p] = FALSE]
    /\ calls' = [calls EXCEPT ![p] = <<>>]
    /\ airport' = [airport EXCEPT ![p] = NoPath]
    /\ invoked' = [invoked EXCEPT ![p] = "none"]
    /\ speedRaised' = [speedRaised EXCEPT ![p] = "none"]
    /\ existedBefore' = [existedBefore EXCEPT ![p] = fileExists]
    /\ written' = [written EXCEPT ![p] = <<>>]
    /\ UNCHANGED <<dirExists, fileExists, log, clock, pvars, svars>>

\* runs one at a time: a run starts when no other run is in progress
Start(p) ==
    /\ \A q \in Procs : ~Active(q)
    /\ Launch(p, MaxRuns)

\* no external serialization: a run starts whatever the other process does
StartOverlapping(p) == Launch(p, MaxOverlapRuns)

\* lines 12-16: import speedtest, or the message on stderr and sys.exit(1)
ImportSpeedtest(p) ==
    /\ pc[p] = "import"
    /\ \E available \in BOOLEAN :
          IF available
          THEN Goto(p, "ensure_dirs")
          ELSE Exit(p, 1, "ImportError")
    /\ UNCHANGED <<gvars, timestamp_iso, wifi, speed, row, file_exists, calls,
                   airport, invoked, speedRaised, existedBefore, written, pvars, svars>>

\* main(): ensure_dirs()
EnsureDirs(p) ==
    /\ pc[p] = "ensure_dirs"
    /\ dirExists' = TRUE
    /\ Call(p, "ensure_dirs")
    /\ Goto(p, "timestamp")
    /\ UNCHANGED <<fileExists, log, clock, runs, overlapped, timestamp_iso, wifi, speed, row,
                   file_exists, airport, invoked, speedRaised, existedBefore, written,
                   pvars, svars>>

\* main(): timestamp_iso = now; the clock has moved on at the next reading
CaptureTimestamp(p) ==
    /\ pc[p] = "timestamp"
    /\ timestamp_iso' = [timestamp_iso EXCEPT ![p] = PyStr(isoformat(clock))]
    /\ clock' = clock + 1
    /\ Goto(p, "get_wifi_stats")
    /\ UNCHANGED <<dirExists, fileExists, log, runs, overlapped, wifi, speed, row, file_exists, calls,
                   airport, invoked, speedRaised, existedBefore, written, pvars, svars>>

\* main(): wifi = get_wifi_stats().  Only CalledProcessError is caught; an
\* OSError of check_output leaves get_wifi_stats and main() uncaught.
GetWifiStats(p, presentSets) ==
    /\ pc[p] = "get_wifi_stats"
    /\ Call(p, "get_wifi_stats")
    /\ \E present \in presentSets :
          LET found == find_airport(present)
          IN  /\ airport' = [airport EXCEPT ![p] = found]
              /\ IF found = NoPath
                 THEN /\ wifi' = [wifi EXCEPT ![p] = AllAbsentWifi]
                      /\ invoked' = invoked
                      /\ Goto(p, "run_speedtest")
                 ELSE \E out \in InvokeOutcomes :
                         /\ invoked' = [invoked EXCEPT ![p] = out.kind]
                         /\ IF out.kind = "exit0"
                            THEN /\ wifi' = [wifi EXCEPT ![p] = parse_airport_output(out.text)]
                                 /\ Goto(p, "run_speedtest")
                            ELSE IF out.kind = "nonzero"
                            THEN /\ wifi' = [wifi EXCEPT ![p] = AllAbsentWifi]
                                 /\ Goto(p, "run_speedtest")
                            ELSE /\ wifi' = wifi
                                 /\ Exit(p, 1, "OSError")
    /\ UNCHANGED <<gvars, timestamp_iso, speed, row, file_exists, speedRaised,
                   existedBefore, written, pvars, svars>>

\* main(): the try/except around speed = run_speedtest()
RunSpeedtest(p, inputs) ==
    /\ pc[p] = "run_speedtest"
    /\ Call(p, "run_speedtest")
    /\ \E in \in inputs, tie \in {0, 1} :
          LET result == run_speedtest(in, tie)
          IN  IF result.raised
              THEN /\ speed' = [speed EXCEPT ![p] = BlankSpeed]
                   /\ speedRaised' = [speedRaised EXCEPT ![p] = result.value]
              ELSE /\ speed' = [speed EXCEPT ![p] = result.value]
                   /\ speedRaised' = speedRaised
    /\ Goto(p, "merge")
    /\ UNCHANGED <<gvars, timestamp_iso, wifi, row, file_exists, airport, invoked,
                   existedBefore, written, pvars, svars>>

MergedRowNoTimestamp(ts, w, sp) == DictMerge(w, sp)

\* {"timestamp_iso": timestamp_iso, **wifi, **speed}
MergedRow(ts, w, sp) == DictMerge(DictMerge([timestamp_iso |-> ts], w), sp)

\* main(): row = {...}
MergeRow(p) ==
    /\ pc[p] = "merge"
    /\ row' = [row EXCEPT ![p] = MergedRow(timestamp_iso[p], wifi[p], speed[p])]
    /\ Goto(p, "append_exists")
    /\ UNCHANGED <<gvars, timestamp_iso, wifi, speed, file_exists, calls, airport, invoked,
                   speedRaised, existedBefore, written, pvars, svars>>

\* append_csv(): file_exists = os.path.exists(LOG_FILE)
AppendCsvExists(p) ==
    /\ pc[p] = "append_exists"
    /\ Call(p, "append_csv")
    /\ file_exists' = [file_exists EXCEPT ![p] = fileExists]
    /\ Goto(p, "append_open")
    /\ UNCHANGED <<gvars, timestamp_iso, wifi, speed, row, airport, invoked, speedRaised,
                   existedBefore, written, pvars, svars>>

\* append_csv(): open(LOG_FILE, "a") creates the file when it is missing
AppendCsvOpen(p) ==
    /\ pc[p] = "append_open"
    /\ fileExists' = TRUE
    /\ Goto(p, "append_write")
    /\ UNCHANGED <<dirExists, log, clock, runs, overlapped, timestamp_iso, wifi, speed, row, file_exists,
                   calls, airport, invoked, speedRaised, existedBefore, written, pvars, svars>>

TruncatingWrite(old, lines) == lines

\* what a write in mode "a" leaves in the file
AppendWrite(old, lines) == old \o lines

HeaderAlways(existed) == <<HeaderLine>>

\* if not file_exists: writer.writeheader()
HeaderIfNew(existed) == IF existed THEN <<>> ELSE <<HeaderLine>>

\* append_csv(): the header when file_exists was False, then the row; the
\* buffered lines reach the file when the with-block closes it
AppendCsvWrite(p) ==
    /\ pc[p] = "append_write"
    /\ LET lines == HeaderIfNew(file_exists[p])
                      \o (IF RowHasExtraKeys(row[p]) THEN <<>> ELSE <<RowLine(row[p])>>)
       IN  /\ log' = AppendWrite(log, lines)
           /\ written' = [written EXCEPT ![p] = lines]
    /\ IF RowHasExtraKeys(row[p]) THEN Exit(p, 1, "ValueError") ELSE Exit(p, 0, "none")
    /\ UNCHANGED <<dirExists, fileExists, clock, runs, overlapped, timestamp_iso, wifi, speed, row,
                   file_exists, calls, airport, invoked, speedRaised, existedBefore,
                   pvars, svars>>

Step(p) ==
    \/ ImportSpeedtest(p)
    \/ EnsureDirs(p)
    \/ CaptureTimestamp(p)
    \/ MergeRow(p)
    \/ AppendCsvExists(p)
    \/ AppendCsvOpen(p)
    \/ AppendCsvWrite(p)

Next ==
    \E p \in Procs :
        \/ Start(p)
        \/ Step(p)
        \/ GetWifiStats(p, PresentSets)
        \/ RunSpeedtest(p, SpeedInputs)

Spec == Init /\ [][Next]_vars

NextOverlap ==
    \E p \in Procs :
        \/ StartOverlapping(p)
        \/ Step(p)
        \/ GetWifiStats(p, OverlapPresentSets)
        \/ RunSpeedtest(p, OverlapSpeedInputs)

SpecOverlap == Init /\ [][NextOverlap]_vars
(* ----------------- the parser on its own ------------------------------ *)
\* values after the colon: integers as int() reads them (sign, leading zero,
\* underscore, surrounding blanks) and texts it rejects
ReportValues ==
    {<<>>, <<" ">>, <<"-", "5", "0">>, <<" ", "-", "9", "0", " ">>, <<"5">>, <<"0">>,
     <<"+", "5">>, <<"0", "5">>, <<"5", "_", "0">>, <<"_", "5">>, <<"-">>, <<"-", "-", "5">>,
     <<"-", " ", "5">>, <<"5", " ", "0">>, <<"5", "x">>, <<"5", ".", "0">>, <<"5", ":", "0">>}

ParseKeys == {<<"agrCtlRSSI">>, <<"agrCtlNoise">>, <<" ", "agrCtlNoise", " ">>}

\* "key:value" lines, and one line without a colon
ReportLines ==
    {key \o <<":">> \o val : key \in ParseKeys, val \in ReportValues}
        \cup {<<"agrCtlRSSI", " ", "-", "5">>}

\* the utility prints one more line
EmitLine ==
    /\ pResult = NotParsed
    /\ pLines < MaxLines
    /\ \E line \in ReportLines : pText' = pText \o line \o <<"\n">>
    /\ pLines' = pLines + 1
    /\ UNCHANGED <<pResult, gvars, lvars, svars>>

\* parse_airport_output(out)
ParseOutput ==
    /\ pResult = NotParsed
    /\ pResult' = parse_airport_output(pText)
    /\ UNCHANGED <<pText, pLines, gvars, lvars, svars>>

ParseNext == EmitLine \/ ParseOutput

SpecParse == Init /\ [][ParseNext]_vars

(* ----------------- run_speedtest on its own --------------------------- *)
\* a dict with any subset of the keys of full
SubDicts(full) == {[x \in ks |-> full[x]] : ks \in SUBSET DOMAIN full}

SummaryPings == {None, PyFloat(0), PyFloat(12345), PyFloat(12348)}

BestLatencies == {PyFloat(0), PyFloat(9871)}

SpeedSpecInputs ==
    {[fail |-> f, down |-> 87654321, up |-> 1500, res |-> r, best |-> b] :
        f \in {"none", "download"},
        r \in UNION {SubDicts([ping |-> pg, client |-> [ip |-> PyStr(<<"203.0.113.7">>)]]) :
                        pg \in SummaryPings},
        b \in UNION {SubDicts([sponsor |-> PyStr(<<"Dialog">>), name |-> PyStr(<<"Colombo">>),
                               latency |-> lt]) : lt \in BestLatencies}}

SpeedInit ==
    /\ RunInit
    /\ ParseIdle
    /\ sIn \in SpeedSpecInputs
    /\ sOut = Unbound

\* speed = run_speedtest()
Measure ==
    /\ sOut = Unbound
    /\ \E tie \in {0, 1} : sOut' = run_speedtest(sIn, tie)
    /\ UNCHANGED <<sIn, gvars, lvars, pvars>>

SpeedNext == Measure

SpecSpeed == SpeedInit /\ [][SpeedNext]_vars
(* ------------------------------ claims -------------------------------- *)
Exited(p) == pc[p] = "exited"

Called(p, fn) == \E c \in 1..Len(calls[p]) : calls[p][c] = fn

CallCount(p, fn) == Cardinality({c \in 1..Len(calls[p]) : calls[p][c] = fn})

\* the function has been called and control has left it
Returned(p, fn) == Called(p, fn) /\ pc[p] /= fn

\* the header as the log's documentation gives it
ExpectedHeader ==
    <<<<"timestamp_iso">>, <<"ssid">>, <<"bssid">>, <<"channel">>, <<"rssi_dbm">>,
      <<"noise_dbm">>, <<"snr_db">>, <<"tx_rate_mbps">>, <<"download_mbps">>,
      <<"upload_mbps">>, <<"ping_ms">>, <<"external_ip">>, <<"server_name">>,
      <<"server_country">>>>

ExpectedColumns ==
    <<"timestamp_iso", "ssid", "bssid", "channel", "rssi_dbm", "noise_dbm", "snr_db",
      "tx_rate_mbps", "download_mbps", "upload_mbps", "ping_ms", "external_ip",
      "server_name", "server_country">>

IsHeader(line) == line = ExpectedHeader

HeaderCount(lines) == Cardinality({c \in 1..Len(lines) : IsHeader(lines[c])})

DataCount(lines) == Cardinality({c \in 1..Len(lines) : ~IsHeader(lines[c])})

IsPrefix(a, b) == Len(a) <= Len(b) /\ SubSeq(b, 1, Len(a)) = a

\* C1: every run that gets past the import appends exactly one data row, and
\* writes the header iff the log file did not exist before the run
C1_OneRowEveryRun ==
    \A p \in Procs :
        (Exited(p) /\ exc[p] /= "ImportError") =>
            /\ DataCount(written[p]) = 1
            /\ (HeaderCount(written[p]) = 1) <=> ~existedBefore[p]
            /\ HeaderCount(written[p]) <= 1

\* C2: when run_speedtest raises, the row has the six throughput fields empty,
\* the wireless fields are those get_wifi_stats returned, and run_speedtest
\* was called once
C2_FailedSpeedtestRow ==
    \A p \in Procs :
        speedRaised[p] /= "none" =>
            /\ CallCount(p, "run_speedtest") = 1
            /\ speed[p].download_mbps.k = "None"
            /\ speed[p].upload_mbps.k = "None"
            /\ speed[p].ping_ms.k = "None"
            /\ speed[p].external_ip = [k |-> "str", i |-> 0, s |-> <<>>]
            /\ speed[p].server_name = [k |-> "str", i |-> 0, s |-> <<>>]
            /\ speed[p].server_country = [k |-> "str", i |-> 0, s |-> <<>>]
            /\ Exited(p) =>
                  /\ exitCode[p] = 0
                  /\ Len(written[p]) >= 1
                  /\ LET line == written[p][Len(written[p])]
                     IN  /\ \A c \in 9..14 : line[c] = <<>>
                         /\ \A c \in 9..14 : row[p][ExpectedColumns[c]] = speed[p][ExpectedColumns[c]]
                         /\ \A c \in 2..8 : row[p][ExpectedColumns[c]] = wifi[p][ExpectedColumns[c]]

\* a run whose measurement failed in the conversion block, after the download
\* and upload were measured, has written its row with the wireless fields set
C2_Witness ==
    \E p \in Procs :
        /\ Exited(p)
        /\ speedRaised[p] = "convert"
        /\ wifi[p].rssi_dbm.k = "int"
        /\ DataCount(written[p]) = 1

\* C3: get_wifi_stats never raises, it returns the seven wireless fields
C3_WifiNeverRaises ==
    \A p \in Procs :
        Returned(p, "get_wifi_stats") =>
            /\ exc[p] /= "OSError"
            /\ DOMAIN wifi[p] = {"ssid", "bssid", "channel", "rssi_dbm", "noise_dbm",
                                 "snr_db", "tx_rate_mbps"}

\* C4: with the utility not found, or found and exiting non-zero, the wireless
\* record is all-absent, the run goes on to run_speedtest and appends a row
C4_AbsentUtility ==
    \A p \in Procs :
        (Returned(p, "get_wifi_stats") /\ (airport[p].via = "None" \/ invoked[p] = "nonzero")) =>
            /\ \A f \in {"ssid", "bssid", "channel"} : wifi[p][f] = [k |-> "str", i |-> 0, s |-> <<>>]
            /\ \A f \in {"rssi_dbm", "noise_dbm", "snr_db", "tx_rate_mbps"} : wifi[p][f].k = "None"
            /\ pc[p] \in {"run_speedtest", "merge", "append_exists", "append_open",
                          "append_write", "exited"}
            /\ Exited(p) =>
                  /\ CallCount(p, "run_speedtest") = 1
                  /\ DataCount(written[p]) = 1
                  /\ \A c \in 2..8 : written[p][Len(written[p])][c] = <<>>

\* the utility was at no candidate location and the run has appended its row
C4_Witness ==
    \E p \in Procs :
        /\ Exited(p)
        /\ Called(p, "get_wifi_stats")
        /\ airport[p].via = "None"
        /\ DataCount(written[p]) = 1

\* C5: the exit code is 1 exactly when the library is missing, and then nothing
\* has been done; every other run exits with code 0
C5_ExitCodes ==
    \A p \in Procs :
        Exited(p) =>
            /\ (exitCode[p] = 1) <=> (exc[p] = "ImportError")
            /\ exc[p] = "ImportError" => calls[p] = <<>> /\ written[p] = <<>>
            /\ exc[p] /= "ImportError" => exitCode[p] = 0

\* the last value the report gives for key, the blanks around it dropped;
\* <<"None">> when no line has the key
RECURSIVE LastValue(_, _, _)
LastValue(lines, key, sofar) ==
    IF lines = <<>> THEN sofar
    ELSE LET line == Head(lines)
             hasKey == \E c \in 1..Len(line) :
                          /\ line[c] = ":"
                          /\ \A h \in 1..(c - 1) : line[h] /= ":"
                          /\ SelectSeq(SubSeq(line, 1, c - 1), LAMBDA t : t /= " ") = <<key>>
             afterColon == SubSeq(line, 1 + (CHOOSE c \in 1..Len(line) :
                                                line[c] = ":" /\ \A h \in 1..(c - 1) : line[h] /= ":"),
                                  Len(line))
         IN  LastValue(Tail(lines), key, IF hasKey THEN afterColon ELSE sofar)

TextLines(text) ==
    LET ends == {c \in 1..Len(text) : text[c] = "\n"}
    IN  [n \in 1..Cardinality(ends) |->
            LET e == CHOOSE c \in ends : Cardinality({d \in ends : d < c}) = n - 1
                b == IF n = 1 THEN 1
                     ELSE 1 + (CHOOSE c \in ends : Cardinality({d \in ends : d < c}) = n - 2)
            IN  SubSeq(text, b, e - 1)]

\* a decimal integer: optional sign, digits, blanks around it allowed
PlainInteger(t) ==
    LET core == SelectSeq(t, LAMBDA c : c /= " ")
        body == IF core /= <<>> /\ core[1] \in {"+", "-"} THEN Tail(core) ELSE core
    IN  /\ body /= <<>>
        /\ \A c \in 1..Len(body) : body[c] \in {"0", "1", "2", "3", "4", "5", "6", "7", "8", "9"}
        /\ \A c \in 1..Len(t) : t[c] = " " =>
              (\A h \in 1..c : t[h] = " ") \/ (\A h \in c..Len(t) : t[h] = " ")

\* C6: snr is absent when agrCtlRSSI or agrCtlNoise is missing or no integer,
\* it is rssi - noise when both are integers, and it is never present with
\* rssi or noise absent
C6_SnrDifference ==
    pResult /= NotParsed =>
        LET rssiText == LastValue(TextLines(pText), "agrCtlRSSI", <<"None">>)
            noiseText == LastValue(TextLines(pText), "agrCtlNoise", <<"None">>)
        IN  /\ (rssiText = <<"None">> \/ noiseText = <<"None">>) => pResult.snr_db.k = "None"
            /\ (PlainInteger(rssiText) /\ PlainInteger(noiseText)) =>
                  /\ pResult.snr_db.k = "int"
                  /\ pResult.rssi_dbm.k = "int"
                  /\ pResult.noise_dbm.k = "int"
            /\ (pResult.rssi_dbm.k = "None" \/ pResult.noise_dbm.k = "None") =>
                  pResult.snr_db.k = "None"
            /\ (pResult.rssi_dbm.k = "int" /\ pResult.noise_dbm.k = "int") =>
                  /\ pResult.snr_db.k = "int"
                  /\ pResult.snr_db.i = pResult.rssi_dbm.i - pResult.noise_dbm.i

\* a report with an integer rssi and a noise value that is no integer was parsed
C6_Witness ==
    /\ pResult /= NotParsed
    /\ pResult.rssi_dbm = [k |-> "int", i |-> -50, s |-> <<>>]
    /\ LastValue(TextLines(pText), "agrCtlNoise", <<"None">>) = <<"5", "x">>
    /\ pResult.snr_db.k = "None"

\* C7: the log is append-only: every step leaves the earlier content of the
\* log as a prefix of the new content
C7_AppendOnly == [][IsPrefix(log, log')]_vars

\* three runs have appended their rows, in the order they were made
C7_Witness ==
    /\ Len(log) = 4
    /\ IsHeader(log[1])
    /\ \A c \in 2..4 : log[c][1][2] = "0" /\ log[c][1][3] = Digits[c - 1]

\* C8: the merged row has exactly the 14 declared columns, a non-null
\* timestamp, and every line of the log has its fields in the header's order
C8_RowColumns ==
    /\ \A p \in Procs :
          "unbound" \notin DOMAIN row[p] =>
              /\ DOMAIN row[p] = {ExpectedColumns[c] : c \in 1..14}
              /\ row[p].timestamp_iso.k = "str"
              /\ row[p].timestamp_iso.s /= <<>>
    /\ \A p \in Procs :
          (Exited(p) /\ written[p] /= <<>>) =>
              LET line == written[p][Len(written[p])]
              IN  /\ Len(line) = 14
                  /\ line[1] = row[p].timestamp_iso.s
                  /\ \A c \in 2..14 :
                        LET v == row[p][ExpectedColumns[c]]
                        IN  /\ v.k = "None" => line[c] = <<>>
                            /\ v.k = "str" => line[c] = v.s
                            /\ v.k \in {"int", "float"} => line[c] /= <<>>
    /\ \A c \in 1..Len(log) : Len(log[c]) = 14 /\ log[c][1] /= <<>>

\* a row with wireless and throughput both measured has been written
C8_Witness ==
    \E p \in Procs :
        /\ Exited(p)
        /\ DataCount(written[p]) = 1
        /\ row[p].snr_db = [k |-> "int", i |-> 40, s |-> <<>>]
        /\ row[p].download_mbps = [k |-> "float", i |-> 87654, s |-> <<>>]
        /\ written[p][Len(written[p])][7] = <<"4", "0">>
        /\ written[p][Len(written[p])][9] = <<"8", "7", ".", "6", "5", "4">>

\* x (thousandths) rounded to two decimals
IsRounded2(out, x) ==
    /\ out % 10 = 0
    /\ out - x <= 5
    /\ x - out <= 5

Measured == "raised" \in DOMAIN sOut /\ ~sOut.raised

\* C9 as written: the ping is the summary's when the summary has the key, the
\* best server's latency exactly when it has not, never another value
C9_PingReportedOnly ==
    Measured =>
        /\ "ping" \in DOMAIN sIn.res => IsRounded2(sOut.value.ping_ms.i, sIn.res.ping.i)
        /\ "ping" \notin DOMAIN sIn.res =>
              /\ "latency" \in DOMAIN sIn.best
              /\ IsRounded2(sOut.value.ping_ms.i, sIn.best.latency.i)

\* C9 amended: the ping is the summary's when the summary has the key (zero
\* included), the best server's latency when only that is reported, and 0.0
\* when neither is reported
C9_PingSource ==
    Measured =>
        /\ sOut.value.ping_ms.k = "float"
        /\ "ping" \in DOMAIN sIn.res => IsRounded2(sOut.value.ping_ms.i, sIn.res.ping.i)
        /\ ("ping" \notin DOMAIN sIn.res /\ "latency" \in DOMAIN sIn.best) =>
              IsRounded2(sOut.value.ping_ms.i, sIn.best.latency.i)
        /\ ("ping" \notin DOMAIN sIn.res /\ "latency" \notin DOMAIN sIn.best) =>
              sOut.value.ping_ms.i = 0

\* a summary ping of zero was kept although the best server reported a latency
C9_Witness ==
    /\ Measured
    /\ "ping" \in DOMAIN sIn.res
    /\ sIn.res.ping = [k |-> "float", i |-> 0, s |-> <<>>]
    /\ "latency" \in DOMAIN sIn.best
    /\ sIn.best.latency.i = 9871
    /\ sOut.value.ping_ms.i = 0

\* C10: while no run has overlapped another, a log with content has exactly one
\* header row and it is the first line
C10_OneHeaderUnlessOverlap ==
    (~overlapped /\ log /= <<>>) =>
        /\ IsHeader(log[1])
        /\ HeaderCount(log) = 1

\* two overlapping runs both saw the file missing: two header rows, the second
\* after a data row
C10_Witness ==
    /\ overlapped
    /\ Len(log) = 4
    /\ IsHeader(log[1])
    /\ ~IsHeader(log[2])
    /\ IsHeader(log[3])
    /\ ~IsHeader(log[4])
====
